---- MODULE Spec2Model ----
(***************************************************************************)
(* Model of the Google Pay Web Push Provisioning integration library       *)
(* (integration.js, API version 1.6) as it is driven by the host page:     *)
(* openAppWindow / closeAppWindow, the 'message' and 'unload' listeners    *)
(* and the closure poll of every AppContext.                                *)
(***************************************************************************)
EXTENDS Integers, Sequences, FiniteSets, TLC

VARIABLES
    windowName,         \* window.name of the host page
    heap,               \* the AppContext objects still reachable, by address
    currentAppContext,  \* address of the singleton AppContext, 0 for null
    timers,             \* addresses of the contexts with a pending setTimeout
    openWindows,        \* application windows that are open
    listening,          \* the 'message' and 'unload' listeners are registered
    closeRequested,     \* closeAppWindow has closed the current context's window
    out                 \* what the last step threw, opened or called back

vars ==
    <<windowName, heap, currentAppContext, timers, openWindows, listening,
      closeRequested, out>>

(***************************************************************************)
(* Bounds.                                                                 *)
(***************************************************************************)
\* AppContext objects that can be reachable at once: the current one and
\* the replaced ones whose poll timer is still pending.
HeapSize == 2

Addr == 1..HeapSize

(***************************************************************************)
(* JavaScript values: a tag and an integer.                                *)
(***************************************************************************)
JsUndefined == [t |-> "undefined", v |-> 0]
JsNull == [t |-> "null", v |-> 0]
JsFunction == [t |-> "function", v |-> 0]
JsString == [t |-> "string", v |-> 1]
JsNaN == [t |-> "nan", v |-> 0]
JsTrue == [t |-> "boolean", v |-> 1]
JsFalse == [t |-> "boolean", v |-> 0]
JsNumber(n) == [t |-> "number", v |-> n]

\* typeof value
TypeOf(value) ==
    CASE value.t = "nan" -> "number"
      [] value.t = "null" -> "object"
      [] OTHER -> value.t

\* ToBoolean(value), as applied by !, ?: and if
Truthy(value) ==
    CASE value.t \in {"undefined", "null", "nan"} -> FALSE
      [] value.t \in {"number", "boolean", "string"} -> value.v # 0
      [] OTHER -> TRUE

(***************************************************************************)
(* Constants of the library.                                               *)
(***************************************************************************)
PROD_GOOGLE_PAY_ORIGIN == "https://pay.google.com"
TEST_GOOGLE_PAY_ORIGIN == "https://pay.sandbox.google.com"
APP_URL_PATH == "/gp/v/a/pushprovisioning/frame"
FIXED_APP_WINDOW_ID_1 == "googlepay-webpp-v1_6-app-window-1"
FIXED_APP_WINDOW_ID_2 == "googlepay-webpp-v1_6-app-window-2"
MIN_CONTENT_HEIGHT == 700
MIN_CONTENT_WIDTH == 1100

E406 == "E406"
E407 == "E407"
E408 == "E408"
E409 == "E409"
E410 == "E410"
E411 == "E411"

ActionSuccess == "success"
ActionFailure == "failure"
ActionReady == "ready"
ActionSessionCreated == "sessionCreated"

(***************************************************************************)
(* Helpers.                                                                *)
(***************************************************************************)
\* assertValueType passes
assertValueType(value, allowedTypes) == TypeOf(value) \in allowedTypes

\* joinParams over a two-entry map
joinParams(k1, v1, k2, v2, delimiter) ==
    k1 \o "=" \o v1 \o delimiter \o k2 \o "=" \o v2

MathMax(a, b) == IF a >= b THEN a ELSE b

(***************************************************************************)
(* AppOptions: the validated options, or the error its constructor throws. *)
(***************************************************************************)
assertOptionalCallback(value) ==
    assertValueType(value, {"function", "undefined"})

\* onSessionCreated passes: a function
RequiredCallbackValid_Optional(value) ==
    assertValueType(value, {"function", "undefined"})

RequiredCallbackValid(value) == assertValueType(value, {"function"})

\* contentHeight and contentWidth pass: both numbers or both undefined
ContentDimensionsValid_Independent(contentHeight, contentWidth) ==
    /\ assertValueType(contentHeight, {"number", "undefined"})
    /\ assertValueType(contentWidth, {"number", "undefined"})

ContentDimensionsValid(contentHeight, contentWidth) ==
    /\ assertValueType(contentHeight, {"number", "undefined"})
    /\ assertValueType(contentWidth, {TypeOf(contentHeight)})

\* the content dimensions are validated before the callbacks
AppOptions_DimensionsFirst(appOptionsObject) ==
    LET f == appOptionsObject.f
        failed(code) == [err |-> code, f |-> f]
    IN  IF ~ContentDimensionsValid(f.contentHeight, f.contentWidth)
        THEN failed(E409)
        ELSE IF ~RequiredCallbackValid(f.onSessionCreated) THEN failed(E407)
        ELSE IF ~assertOptionalCallback(f.onReady) THEN failed(E408)
        ELSE IF ~assertOptionalCallback(f.onSuccess) THEN failed(E408)
        ELSE IF ~assertOptionalCallback(f.onFailure) THEN failed(E408)
        ELSE IF ~assertOptionalCallback(f.onFinish) THEN failed(E408)
        ELSE IF ~assertOptionalCallback(f.onCancel) THEN failed(E408)
        ELSE [err |-> "", f |-> f]

AppOptions(appOptionsObject) ==
    LET f == appOptionsObject.f
        failed(code) == [err |-> code, f |-> f]
    IN  IF ~RequiredCallbackValid(f.onSessionCreated) THEN failed(E407)
        ELSE IF ~assertOptionalCallback(f.onReady) THEN failed(E408)
        ELSE IF ~assertOptionalCallback(f.onSuccess) THEN failed(E408)
        ELSE IF ~assertOptionalCallback(f.onFailure) THEN failed(E408)
        ELSE IF ~assertOptionalCallback(f.onFinish) THEN failed(E408)
        ELSE IF ~assertOptionalCallback(f.onCancel) THEN failed(E408)
        ELSE IF ~ContentDimensionsValid(f.contentHeight, f.contentWidth)
             THEN failed(E409)
        ELSE [err |-> "", f |-> f]

(***************************************************************************)
(* AppContext.                                                             *)
(***************************************************************************)
makeActionMap_(appOptions) ==
    (ActionSessionCreated :> appOptions.f.onSessionCreated) @@
    (ActionReady :> appOptions.f.onReady) @@
    (ActionSuccess :> appOptions.f.onSuccess) @@
    (ActionFailure :> appOptions.f.onFailure)

getAppWindowFeatures_(appOptions) ==
    IF ~Truthy(appOptions.f.contentHeight) \/ ~Truthy(appOptions.f.contentWidth)
    THEN ""
    ELSE joinParams(
            "height",
            ToString(MathMax(MIN_CONTENT_HEIGHT, appOptions.f.contentHeight.v)),
            "width",
            ToString(MathMax(MIN_CONTENT_WIDTH, appOptions.f.contentWidth.v)),
            ",")

\* appWindowId_ as the constructor chooses it
NewAppWindowId_Alternating ==
    IF currentAppContext # 0
       /\ heap[currentAppContext].appWindowId_ = FIXED_APP_WINDOW_ID_1
    THEN FIXED_APP_WINDOW_ID_2
    ELSE FIXED_APP_WINDOW_ID_1

NewAppWindowId ==
    IF windowName = FIXED_APP_WINDOW_ID_1
    THEN FIXED_APP_WINDOW_ID_2
    ELSE FIXED_APP_WINDOW_ID_1

\* appOrigin_ as the constructor chooses it
NewAppOrigin_Swapped(appOptions) ==
    IF Truthy(appOptions.f.isTestEnvironment)
    THEN PROD_GOOGLE_PAY_ORIGIN
    ELSE TEST_GOOGLE_PAY_ORIGIN

NewAppOrigin(appOptions) ==
    IF Truthy(appOptions.f.isTestEnvironment)
    THEN TEST_GOOGLE_PAY_ORIGIN
    ELSE PROD_GOOGLE_PAY_ORIGIN

\* The object the constructor has built when window.open returned a window.
\* finishCalls and cancelCalls are history: they count the invocations of
\* onFinish_ and onCancel_ and are read by no operation.
NewAppContext(appOptions) ==
    [ actionMap_ |-> makeActionMap_(appOptions),
      onFinish_ |-> appOptions.f.onFinish,
      onCancel_ |-> appOptions.f.onCancel,
      appWindowId_ |-> NewAppWindowId,
      appOrigin_ |-> NewAppOrigin(appOptions),
      appWindow_ |-> [null |-> FALSE, closed |-> FALSE],
      receivedAppOutcome_ |-> FALSE,
      finishCalls |-> 0,
      cancelCalls |-> 0 ]

isAppWindowOpen_Negated(ctx) == ~ctx.appWindow_.null /\ ctx.appWindow_.closed

isAppWindowOpen(ctx) == ~ctx.appWindow_.null /\ ~ctx.appWindow_.closed

\* the else-if condition of pollAppWindowClosed_: polling continues
PollNeeded_UntilOutcome(ctx) ==
    (Truthy(ctx.onFinish_) \/ Truthy(ctx.onCancel_)) /\ ~ctx.receivedAppOutcome_

PollNeeded(ctx) ==
    Truthy(ctx.onFinish_) \/ (Truthy(ctx.onCancel_) /\ ~ctx.receivedAppOutcome_)

\* pollAppWindowClosed_ schedules itself again
Reschedules_WhenClosed(ctx) == PollNeeded(ctx)

Reschedules(ctx) == ~ctx.appWindow_.closed /\ PollNeeded(ctx)

\* the callback pollAppWindowClosed_ invokes once the window is closed
ClosureCallback_IgnoresOutcome(ctx) ==
    IF Truthy(ctx.onFinish_) THEN "onFinish"
    ELSE IF Truthy(ctx.onCancel_) THEN "onCancel"
    ELSE ""

ClosureCallback(ctx) ==
    IF Truthy(ctx.onFinish_) /\ ctx.receivedAppOutcome_ THEN "onFinish"
    ELSE IF Truthy(ctx.onCancel_) /\ ~ctx.receivedAppOutcome_ THEN "onCancel"
    ELSE ""

(***************************************************************************)
(* Observations of a step.                                                 *)
(***************************************************************************)
\* err: the error code thrown; opened: window.open returned a window;
\* url: the URL passed to window.open, without its query string;
\* features: the window features passed to window.open, for the
\* contentHeight and contentWidth of the call; cb, payload, ctx: the
\* callback invoked, its argument and the context it belongs to;
\* foreignOrigin: the step handled a message whose origin is not the
\* current context's; close: what a call of closeAppWindow found;
\* ignored: why the message handler returned without dispatching;
\* accepted: the action of the message the handler accepted; received:
\* receivedAppOutcome_ as it is when the callback is invoked.
NoOut ==
    [err |-> "", opened |-> FALSE, url |-> "", features |-> "",
     contentHeight |-> JsUndefined, contentWidth |-> JsUndefined,
     cb |-> "", payload |-> "", ctx |-> 0, foreignOrigin |-> FALSE,
     close |-> "", ignored |-> "", accepted |-> "", received |-> FALSE]

\* appUrl up to the query string
AppUrl(appOrigin) == appOrigin \o APP_URL_PATH

WindowOpenCalled(appOptions, features) ==
    [NoOut EXCEPT !.url = AppUrl(NewAppOrigin(appOptions)),
                  !.features = features,
                  !.contentHeight = appOptions.f.contentHeight,
                  !.contentWidth = appOptions.f.contentWidth]

Thrown(code) == [NoOut EXCEPT !.err = code]
Called(a, cb, payload, received) ==
    [NoOut EXCEPT !.cb = cb, !.payload = payload, !.ctx = a, !.received = received]

\* Objects no longer referenced by currentAppContext or by a timer closure
\* are unreachable and dropped.
Reachable(h, cur, tm) == [a \in (DOMAIN h) \cap ({cur} \cup tm) |-> h[a]]

FreeAddr == Addr \ DOMAIN heap
NewAddr == CHOOSE a \in FreeAddr : \A b \in FreeAddr : a <= b

(***************************************************************************)
(* Initial state: the script has run, no window was ever opened.           *)
(***************************************************************************)
\* the host window is unnamed, or is itself a window named like the first popup
WindowNames == {"", FIXED_APP_WINDOW_ID_1}

Init ==
    /\ windowName \in WindowNames
    /\ heap = << >>
    /\ currentAppContext = 0
    /\ timers = {}
    /\ openWindows = 0
    /\ listening = TRUE
    /\ closeRequested = FALSE
    /\ out = NoOut

(***************************************************************************)
(* window.googlepay.openAppWindow(appOptionsObject); windowOpens says      *)
(* whether window.open returns a window: it returns none once the page is  *)
(* unloading.                                                              *)
(***************************************************************************)
\* the assert on the value of window.open fails
WindowNotOpened_Unchecked(windowOpens) == FALSE

WindowNotOpened(windowOpens) == ~windowOpens

\* the error code the call throws, "" when it throws none
openAppWindowError_NoOpenCheck(appOptionsObject, windowOpens) ==
    IF ~assertValueType(appOptionsObject, {"object"}) THEN E406
    ELSE IF appOptionsObject.t = "null" THEN E406
    ELSE IF AppOptions(appOptionsObject).err # ""
         THEN AppOptions(appOptionsObject).err
    ELSE IF WindowNotOpened(windowOpens) THEN E411
    ELSE ""

openAppWindowError(appOptionsObject, windowOpens) ==
    IF ~assertValueType(appOptionsObject, {"object"}) THEN E406
    ELSE IF appOptionsObject.t = "null" THEN E406
    ELSE IF AppOptions(appOptionsObject).err # ""
         THEN AppOptions(appOptionsObject).err
    ELSE IF currentAppContext # 0 /\ isAppWindowOpen(heap[currentAppContext])
         THEN E410
    ELSE IF WindowNotOpened(windowOpens) THEN E411
    ELSE ""

\* currentAppContext is assigned although the constructor throws E411
openAppWindow_AssignsOnE411(appOptionsObject, windowOpens) ==
    /\ listening \/ ~windowOpens
    /\ LET appOptions == AppOptions(appOptionsObject)
           err == openAppWindowError(appOptionsObject, windowOpens)
           features == getAppWindowFeatures_(appOptions)
       IN  IF err = E411
           THEN /\ FreeAddr # {}
                /\ LET a == NewAddr
                       ctx == [NewAppContext(appOptions) EXCEPT
                                 !.appWindow_.null = TRUE]
                   IN  /\ currentAppContext' = a
                       /\ heap' = Reachable((a :> ctx) @@ heap, a, timers)
                /\ out' = [WindowOpenCalled(appOptions, features) EXCEPT !.err = err]
                /\ UNCHANGED <<windowName, timers, openWindows, listening,
                               closeRequested>>
           ELSE IF err # ""
           THEN /\ out' = Thrown(err)
                /\ UNCHANGED <<windowName, heap, currentAppContext, timers,
                               openWindows, listening, closeRequested>>
           ELSE /\ FreeAddr # {}
                /\ LET a == NewAddr
                       ctx == NewAppContext(appOptions)
                       tm == IF PollNeeded(ctx) THEN timers \cup {a} ELSE timers
                   IN  /\ currentAppContext' = a
                       /\ timers' = tm
                       /\ heap' = Reachable((a :> ctx) @@ heap, a, tm)
                       /\ out' = [WindowOpenCalled(appOptions, features) EXCEPT
                                    !.opened = TRUE, !.ctx = a]
                /\ openWindows' = openWindows + 1
                /\ closeRequested' = FALSE
                /\ UNCHANGED <<windowName, listening>>

openAppWindow(appOptionsObject, windowOpens) ==
    /\ listening \/ ~windowOpens
    /\ LET appOptions == AppOptions(appOptionsObject)
           err == openAppWindowError(appOptionsObject, windowOpens)
           features == getAppWindowFeatures_(appOptions)
       IN  IF err = E411
           THEN \* the constructor throws after window.open
                /\ out' = [WindowOpenCalled(appOptions, features) EXCEPT !.err = err]
                /\ UNCHANGED <<windowName, heap, currentAppContext, timers,
                               openWindows, listening, closeRequested>>
           ELSE IF err # ""
           THEN /\ out' = Thrown(err)
                /\ UNCHANGED <<windowName, heap, currentAppContext, timers,
                               openWindows, listening, closeRequested>>
           ELSE /\ FreeAddr # {}
                /\ LET a == NewAddr
                       ctx == NewAppContext(appOptions)
                       tm == IF PollNeeded(ctx) THEN timers \cup {a} ELSE timers
                   IN  /\ currentAppContext' = a
                       /\ timers' = tm
                       /\ heap' = Reachable((a :> ctx) @@ heap, a, tm)
                       /\ out' = [WindowOpenCalled(appOptions, features) EXCEPT
                                    !.opened = TRUE, !.ctx = a]
                /\ openWindows' = openWindows + 1
                /\ closeRequested' = FALSE
                /\ UNCHANGED <<windowName, listening>>

(***************************************************************************)
(* AppContext.closeAppWindow on the context at address a.                  *)
(***************************************************************************)
ContextClosed_Toggled(a) ==
    [heap EXCEPT ![a].appWindow_.closed = ~@]

ContextClosed(a) ==
    IF isAppWindowOpen(heap[a])
    THEN [heap EXCEPT ![a].appWindow_.closed = TRUE]
    ELSE heap

\* closeAppWindow finds the current context's window open
ClosesWindow == currentAppContext # 0 /\ isAppWindowOpen(heap[currentAppContext])

\* the windows left open once closeAppWindow has run on the current context
WindowsAfterClose == IF ClosesWindow THEN openWindows - 1 ELSE openWindows

\* what closeAppWindow finds: no context, an open window, a closed window
CloseFound ==
    IF currentAppContext = 0 THEN "none"
    ELSE IF ClosesWindow THEN "open"
    ELSE "closed"

\* window.googlepay.closeAppWindow()
closeAppWindow ==
    /\ heap' = IF currentAppContext # 0 THEN ContextClosed(currentAppContext) ELSE heap
    /\ openWindows' = WindowsAfterClose
    /\ closeRequested' = (closeRequested \/ ClosesWindow)
    /\ out' = [NoOut EXCEPT !.close = CloseFound]
    /\ UNCHANGED <<windowName, currentAppContext, timers, listening>>

\* The user closes the popup window.
UserClosesWindow ==
    /\ \E a \in DOMAIN heap :
          /\ isAppWindowOpen(heap[a])
          /\ heap' = [heap EXCEPT ![a].appWindow_.closed = TRUE]
    /\ openWindows' = openWindows - 1
    /\ out' = NoOut
    /\ UNCHANGED <<windowName, currentAppContext, timers, listening, closeRequested>>

(***************************************************************************)
(* A 'message' event reaches the host window.                              *)
(***************************************************************************)
MessageAccepted_NoOrigin(ctx, messageEvent) ==
    ~( \/ ~isAppWindowOpen(ctx)
       \/ messageEvent.appWindowId # ctx.appWindowId_
       \/ messageEvent.action = "" )

MessageAccepted(ctx, messageEvent) ==
    ~( \/ ~isAppWindowOpen(ctx)
       \/ messageEvent.origin # ctx.appOrigin_
       \/ messageEvent.appWindowId # ctx.appWindowId_
       \/ messageEvent.action = "" )

\* the action reports the outcome of the session
OutcomeAction_SuccessOnly(action) == action = ActionSuccess

OutcomeAction(action) == action = ActionSuccess \/ action = ActionFailure

\* receivedAppOutcome_ once an accepted message with this action is handled
ReceivedAfter_Assigned(received, action) == OutcomeAction(action)

ReceivedAfter(received, action) ==
    IF OutcomeAction(action) THEN TRUE ELSE received

ActionCallback(ctx, action) ==
    IF action \in DOMAIN ctx.actionMap_ THEN ctx.actionMap_[action] ELSE JsUndefined

ForeignOrigin(messageEvent) ==
    /\ currentAppContext # 0
    /\ messageEvent.origin # heap[currentAppContext].appOrigin_

\* the first condition that makes the handlers return, "" when none does
MessageIgnored(messageEvent) ==
    IF ~listening THEN ""
    ELSE IF currentAppContext = 0 THEN "context"
    ELSE IF ~isAppWindowOpen(heap[currentAppContext]) THEN "window"
    ELSE IF messageEvent.origin # heap[currentAppContext].appOrigin_ THEN "origin"
    ELSE IF messageEvent.appWindowId # heap[currentAppContext].appWindowId_
         THEN "appWindowId"
    ELSE IF messageEvent.action = "" THEN "action"
    ELSE ""

\* the listener forwards the message to the current context, which accepts it
Dispatched_AnyWindow(messageEvent) ==
    /\ listening
    /\ currentAppContext # 0
    /\ messageEvent.origin = heap[currentAppContext].appOrigin_
    /\ messageEvent.action # ""

Dispatched(messageEvent) ==
    /\ listening
    /\ currentAppContext # 0
    /\ MessageAccepted(heap[currentAppContext], messageEvent)

handleMessageEvent(messageEvent) ==
    /\ IF Dispatched(messageEvent)
       THEN LET a == currentAppContext
                action == messageEvent.action
                received == ReceivedAfter(heap[a].receivedAppOutcome_, action)
            IN  /\ heap' = [heap EXCEPT ![a].receivedAppOutcome_ = received]
                \* the callback is invoked after the assignment
                /\ out' = [(IF Truthy(ActionCallback(heap[a], action))
                            THEN Called(a, action, messageEvent.payload, received)
                            ELSE NoOut)
                           EXCEPT !.foreignOrigin = ForeignOrigin(messageEvent),
                                  !.accepted = action]
       ELSE /\ heap' = heap
            /\ out' = [NoOut EXCEPT !.foreignOrigin = ForeignOrigin(messageEvent),
                                    !.ignored = MessageIgnored(messageEvent)]
    /\ UNCHANGED <<windowName, currentAppContext, timers, openWindows, listening,
                   closeRequested>>

(***************************************************************************)
(* The timer of the context at address a fires: pollAppWindowClosed_.      *)
(***************************************************************************)
\* the tick of a replaced context is scheduled again
pollAppWindowClosed_ReplacedRepeats(a) ==
    /\ a \in timers
    /\ LET ctx == heap[a]
           cb == ClosureCallback(ctx)
           tm == IF Reschedules(ctx) \/ a # currentAppContext
                 THEN timers
                 ELSE timers \ {a}
           h == IF ctx.appWindow_.closed /\ cb = "onFinish"
                THEN [heap EXCEPT ![a].finishCalls = @ + 1]
                ELSE IF ctx.appWindow_.closed /\ cb = "onCancel"
                THEN [heap EXCEPT ![a].cancelCalls = @ + 1]
                ELSE heap
       IN  /\ timers' = tm
           /\ heap' = Reachable(h, currentAppContext, tm)
           /\ out' = IF ctx.appWindow_.closed /\ cb # ""
                     THEN Called(a, cb, "{}", ctx.receivedAppOutcome_)
                     ELSE NoOut
    /\ UNCHANGED <<windowName, currentAppContext, openWindows, listening,
                   closeRequested>>

pollAppWindowClosed_(a) ==
    /\ a \in timers
    /\ LET ctx == heap[a]
           cb == ClosureCallback(ctx)
           tm == IF Reschedules(ctx)
                 THEN timers
                 ELSE timers \ {a}
           h == IF ctx.appWindow_.closed /\ cb = "onFinish"
                THEN [heap EXCEPT ![a].finishCalls = @ + 1]
                ELSE IF ctx.appWindow_.closed /\ cb = "onCancel"
                THEN [heap EXCEPT ![a].cancelCalls = @ + 1]
                ELSE heap
       IN  /\ timers' = tm
           /\ heap' = Reachable(h, currentAppContext, tm)
           /\ out' = IF ctx.appWindow_.closed /\ cb # ""
                     THEN Called(a, cb, "{}", ctx.receivedAppOutcome_)
                     ELSE NoOut
    /\ UNCHANGED <<windowName, currentAppContext, openWindows, listening,
                   closeRequested>>

(***************************************************************************)
(* The 'unload' event of the host page: handleUnloadEvent.                 *)
(***************************************************************************)
\* the listeners are removed, the window is left as it is
handleUnloadEvent_WindowLeftOpen ==
    /\ listening
    /\ listening' = FALSE
    /\ out' = [NoOut EXCEPT !.close = CloseFound]
    /\ UNCHANGED <<windowName, heap, currentAppContext, timers, openWindows,
                   closeRequested>>

handleUnloadEvent ==
    /\ listening
    /\ listening' = FALSE
    /\ heap' = IF currentAppContext # 0 THEN ContextClosed(currentAppContext) ELSE heap
    /\ openWindows' = WindowsAfterClose
    /\ closeRequested' = (closeRequested \/ ClosesWindow)
    /\ out' = [NoOut EXCEPT !.close = CloseFound]
    /\ UNCHANGED <<windowName, currentAppContext, timers>>

(***************************************************************************)
(* Inputs.                                                                 *)
(***************************************************************************)
Object(f) == [t |-> "object", v |-> 0, f |-> f]

Fields(sc, rd, su, fa, fi, ca, h, w, te) ==
    [ onSessionCreated |-> sc, onReady |-> rd, onSuccess |-> su,
      onFailure |-> fa, onFinish |-> fi, onCancel |-> ca,
      contentHeight |-> h, contentWidth |-> w, isTestEnvironment |-> te ]

EmptyFields ==
    Fields(JsUndefined, JsUndefined, JsUndefined, JsUndefined, JsUndefined,
           JsUndefined, JsUndefined, JsUndefined, JsUndefined)

\* values that are no object: undefined, null, a string
NonObjects ==
    { [t |-> x.t, v |-> x.v, f |-> EmptyFields] : x \in {JsUndefined, JsNull, JsString} }

Optional == {JsFunction, JsUndefined}

\* The options the host page opens sessions with: onFinish and onCancel
\* registered or not; onSessionCreated and onSuccess registered, onReady and
\* onFailure not; no content dimensions, the production origin.
ValidAppOptionsObjects ==
    { Object(Fields(JsFunction, JsUndefined, JsFunction, JsUndefined, fi, ca,
                    JsUndefined, JsUndefined, JsUndefined)) :
        fi \in Optional, ca \in Optional }

\* One options object for each validation error.
InvalidAppOptionsObjects ==
    NonObjects \cup
    { Object(EmptyFields),
      Object([EmptyFields EXCEPT !.onSessionCreated = JsString]),
      Object([EmptyFields EXCEPT !.onSessionCreated = JsFunction, !.onCancel = JsNull]),
      Object([EmptyFields EXCEPT !.onSessionCreated = JsFunction,
                                 !.contentHeight = JsNumber(900)]) }

AppOptionsObjects == ValidAppOptionsObjects \cup InvalidAppOptionsObjects

\* The options of the UI shell (onReady and onSessionCreated alone), under
\* every value of the test-environment flag.
TestEnvironments == {JsUndefined, JsTrue, JsFalse, JsString}

ShellAppOptionsObjects ==
    { Object(Fields(JsFunction, JsFunction, JsUndefined, JsUndefined, JsUndefined,
                    JsUndefined, JsUndefined, JsUndefined, te)) :
        te \in TestEnvironments }

\* Every combination of callback values, with few content dimensions.
CallbackValues == {JsFunction, JsUndefined, JsString}

AppOptionsCallbackProduct ==
    { Object(Fields(sc, rd, su, fa, fi, ca, d[1], d[2], JsUndefined)) :
        sc \in CallbackValues, rd \in CallbackValues,
        su \in {JsFunction, JsString}, fa \in {JsUndefined, JsNull},
        fi \in CallbackValues, ca \in CallbackValues,
        d \in { <<JsUndefined, JsUndefined>>, <<JsNumber(500), JsUndefined>> } }

\* Every combination of content dimensions, with few callbacks and
\* test-environment flags.
ContentHeights ==
    {JsUndefined, JsString, JsNull, JsNaN, JsNumber(0), JsNumber(500), JsNumber(900)}
ContentWidths ==
    {JsUndefined, JsString, JsNaN, JsNumber(0), JsNumber(500), JsNumber(1200)}

AppOptionsDimensionProduct ==
    { Object(Fields(JsFunction, JsUndefined, JsUndefined, JsUndefined, JsUndefined,
                    ca, h, w, te)) :
        ca \in CallbackValues, h \in ContentHeights, w \in ContentWidths,
        te \in {JsUndefined, JsTrue} }

AllAppOptionsObjects ==
    NonObjects \cup AppOptionsCallbackProduct \cup AppOptionsDimensionProduct

Origins == {PROD_GOOGLE_PAY_ORIGIN, TEST_GOOGLE_PAY_ORIGIN, "https://evil.example"}

MessageEventsFrom(origins) ==
    [ origin : origins,
      appWindowId : {FIXED_APP_WINDOW_ID_1, FIXED_APP_WINDOW_ID_2},
      action : {ActionSuccess, ActionFailure, ActionReady, ActionSessionCreated,
                "unknown", ""},
      payload : {"payload"} ]

\* the messages of the production popup
MessageEvents == MessageEventsFrom({PROD_GOOGLE_PAY_ORIGIN})

(***************************************************************************)
(* The library driven by the page, the user and the popup.                 *)
(***************************************************************************)
Open == \E o \in AppOptionsObjects, w \in BOOLEAN : openAppWindow(o, w)
Message == \E m \in MessageEvents : handleMessageEvent(m)
PollTick == \E a \in Addr : pollAppWindowClosed_(a)

Next ==
    \/ Open
    \/ closeAppWindow
    \/ UserClosesWindow
    \/ Message
    \/ PollTick

Spec == Init /\ [][Next]_vars

\* every scheduled poll tick eventually fires
FairSpec == Spec /\ \A a \in Addr : WF_vars(pollAppWindowClosed_(a))

\* the page opening sessions with valid options, until it unloads
OpenValid == \E o \in ValidAppOptionsObjects, w \in BOOLEAN : openAppWindow(o, w)

NextUnload ==
    \/ OpenValid
    \/ closeAppWindow
    \/ UserClosesWindow
    \/ Message
    \/ PollTick
    \/ handleUnloadEvent

SpecUnload == Init /\ [][NextUnload]_vars

\* openAppWindow alone, over the products of the option values
OpenAny == \E o \in AllAppOptionsObjects, w \in BOOLEAN : openAppWindow(o, w)

NextOptions == OpenAny

SpecOptions == Init /\ [][NextOptions]_vars

\* the UI shell's sessions, which schedule no poll, under messages of every origin
OpenShell == \E o \in ShellAppOptionsObjects, w \in BOOLEAN : openAppWindow(o, w)
MessageAnyOrigin == \E m \in MessageEventsFrom(Origins) : handleMessageEvent(m)

NextShell ==
    \/ OpenShell
    \/ closeAppWindow
    \/ UserClosesWindow
    \/ MessageAnyOrigin

SpecShell == Init /\ [][NextShell]_vars

(***************************************************************************)
(* Properties.                                                             *)
(***************************************************************************)
\* the current session's window is open
WindowStillOpen ==
    /\ currentAppContext # 0
    /\ ~heap[currentAppContext].appWindow_.closed

ValidationErrors == {E406, E407, E408, E409}

\* C1, as stated: every openAppWindow call made while the current session's
\* window is still open throws E410.
C1_Original ==
    [][\A o \in AppOptionsObjects, w \in BOOLEAN :
          (WindowStillOpen /\ openAppWindow(o, w)) => out'.err = E410]_vars

\* C1, amended: an openAppWindow call made while the current session's
\* window is still open opens nothing and throws: E410 when its options
\* pass validation, the validation error of its options otherwise.
C1_AlreadyOpen ==
    /\ [](WindowStillOpen =>
            \A o \in AppOptionsObjects, w \in BOOLEAN :
                /\ openAppWindowError(o, w) \in ValidationErrors \cup {E410}
                /\ o \in ValidAppOptionsObjects => openAppWindowError(o, w) = E410
                /\ o \in InvalidAppOptionsObjects =>
                      openAppWindowError(o, w) \in ValidationErrors)
    /\ [][WindowStillOpen =>
            /\ ~out'.opened
            /\ out'.err # "" =>
                  /\ out'.err \in ValidationErrors \cup {E410}
                  /\ openWindows' = openWindows
                  /\ currentAppContext' = currentAppContext
                  /\ heap' = heap]_vars

C1_Witness == WindowStillOpen /\ out.err = E410

\* C2: at most one application window is open, and the window of every
\* context other than the current one is closed.
C2_AtMostOneOpenWindow ==
    /\ openWindows <= 1
    /\ \A a \in DOMAIN heap :
          a # currentAppContext => heap[a].appWindow_.closed
    /\ openWindows = Cardinality({a \in DOMAIN heap : ~heap[a].appWindow_.closed})

\* a replaced session is still polled while the current session's window is open
C2_Witness ==
    /\ WindowStillOpen
    /\ openWindows = 1
    /\ \E a \in DOMAIN heap : a # currentAppContext

\* C3: once the window of a session is closed, onFinish (if registered) is
\* eventually invoked with {} when an outcome was received before, and
\* onCancel (if registered) is eventually invoked with {} when none was.
FinishDue(a) ==
    /\ a \in DOMAIN heap
    /\ heap[a].appWindow_.closed
    /\ heap[a].receivedAppOutcome_
    /\ heap[a].onFinish_ = JsFunction
    /\ heap[a].finishCalls = 0

CancelDue(a) ==
    /\ a \in DOMAIN heap
    /\ heap[a].appWindow_.closed
    /\ ~heap[a].receivedAppOutcome_
    /\ heap[a].onCancel_ = JsFunction
    /\ heap[a].cancelCalls = 0

C4_ForeignOriginIgnored ==
    [][\A m \in MessageEventsFrom(Origins) :
          ( /\ currentAppContext # 0
            /\ m.origin # heap[currentAppContext].appOrigin_
            /\ handleMessageEvent(m) ) =>
              /\ out'.cb = ""
              /\ heap'[currentAppContext].receivedAppOutcome_
                    = heap[currentAppContext].receivedAppOutcome_]_vars

\* a message of a foreign origin reached a sandbox session whose window is open
C4_Witness ==
    /\ out.foreignOrigin
    /\ WindowStillOpen
    /\ heap[currentAppContext].appOrigin_ = TEST_GOOGLE_PAY_ORIGIN
    /\ ~heap[currentAppContext].receivedAppOutcome_

C6_NoCallbackAfterClose ==
    closeRequested =>
        /\ heap[currentAppContext].appWindow_.closed
        /\ ~(out.cb # "" /\ out.ctx = currentAppContext)

\* C7: the outcome-received flag is false in a new session and, once true,
\* stays true for that session.
C7_OutcomeMonotonic ==
    [][ /\ out'.opened => ~heap'[currentAppContext'].receivedAppOutcome_
        /\ \A a \in (DOMAIN heap) \cap (DOMAIN heap') :
              heap[a].receivedAppOutcome_ => heap'[a].receivedAppOutcome_ ]_vars

\* a later message was accepted by a session that had received its outcome
C7_Witness ==
    /\ out.cb = ActionSessionCreated
    /\ heap[out.ctx].receivedAppOutcome_

\* C8: every options object without a function as onSessionCreated makes
\* openAppWindow throw E407, whatever its other fields and whether or not
\* a window is open, and a call that throws E407 opens no window.
LacksSessionCreated(o) ==
    o.t = "object" /\ o.f.onSessionCreated # JsFunction

C8_RequiredCallback ==
    /\ [](\A o \in AllAppOptionsObjects, w \in BOOLEAN :
            LacksSessionCreated(o) => openAppWindowError(o, w) = E407)
    /\ [][out'.err = E407 =>
            /\ ~out'.opened
            /\ openWindows' = openWindows
            /\ heap' = heap
            /\ currentAppContext' = currentAppContext]_vars

\* E407 was thrown while a session window is open
C8_Witness == WindowStillOpen /\ out.err = E407

\* C9, as stated: every options object with exactly one of contentHeight
\* and contentWidth defined makes openAppWindow throw E409.
ExactlyOneDimension(o) ==
    /\ o.t = "object"
    /\ (o.f.contentHeight = JsUndefined) # (o.f.contentWidth = JsUndefined)

C9_Original ==
    \A o \in AllAppOptionsObjects, w \in BOOLEAN :
        ExactlyOneDimension(o) => openAppWindowError(o, w) = E409

\* C9, amended: every options object whose callbacks pass validation and
\* which has exactly one of contentHeight and contentWidth defined makes
\* openAppWindow throw E409.
CallbacksPass(o) ==
    /\ o.f.onSessionCreated = JsFunction
    /\ \A cb \in {o.f.onReady, o.f.onSuccess, o.f.onFailure, o.f.onFinish,
                   o.f.onCancel} : cb \in {JsFunction, JsUndefined}

C9_InvalidDimensions ==
    \A o \in AllAppOptionsObjects, w \in BOOLEAN :
        (ExactlyOneDimension(o) /\ CallbacksPass(o)) =>
            openAppWindowError(o, w) = E409

C9_Witness == out.err = E409

\* C10, as stated: window.open gets the features
\* height=max(700, contentHeight),width=max(1100, contentWidth) when both
\* are numbers, and no features when neither is given.
FeaturesOf(height, width) ==
    "height=" \o ToString(IF height > 700 THEN height ELSE 700) \o
    ",width=" \o ToString(IF width > 1100 THEN width ELSE 1100)

C10_Original ==
    out.opened =>
        /\ (out.contentHeight.t = "number" /\ out.contentWidth.t = "number") =>
              out.features = FeaturesOf(out.contentHeight.v, out.contentWidth.v)
        /\ (out.contentHeight = JsUndefined /\ out.contentWidth = JsUndefined) =>
              out.features = ""

\* C11: a session opened with isTestEnvironment true has the sandbox origin,
\* one opened with isTestEnvironment false or unset the production origin;
\* the popup URL starts with that origin, the origin of a session never
\* changes, and a message has an effect only if its origin is that origin.
C11_TargetOrigin ==
    [][ /\ \A o \in ShellAppOptionsObjects, w \in BOOLEAN :
              (openAppWindow(o, w) /\ out'.opened) =>
                  LET ctx == heap'[currentAppContext']
                  IN  /\ o.f.isTestEnvironment = JsTrue =>
                            ctx.appOrigin_ = TEST_GOOGLE_PAY_ORIGIN
                      /\ o.f.isTestEnvironment \in {JsFalse, JsUndefined} =>
                            ctx.appOrigin_ = PROD_GOOGLE_PAY_ORIGIN
                      /\ out'.url = ctx.appOrigin_ \o APP_URL_PATH
        /\ \A a \in (DOMAIN heap) \cap (DOMAIN heap') :
              heap'[a].appOrigin_ = heap[a].appOrigin_
        /\ \A m \in MessageEventsFrom(Origins) :
              (handleMessageEvent(m) /\ (out'.cb # "" \/ heap' # heap)) =>
                  m.origin = heap[currentAppContext].appOrigin_
        /\ \A m \in MessageEventsFrom(Origins) :
              ( /\ handleMessageEvent(m)
                /\ WindowStillOpen
                /\ m.origin = heap[currentAppContext].appOrigin_
                /\ m.appWindowId = heap[currentAppContext].appWindowId_
                /\ m.action = ActionReady ) => out'.cb = ActionReady ]_vars

\* a sandbox session accepted a message of the sandbox origin
C11_Witness ==
    /\ out.cb = ActionReady
    /\ out.ctx = currentAppContext
    /\ heap[currentAppContext].appOrigin_ = TEST_GOOGLE_PAY_ORIGIN

\* C12: closeAppWindow changes nothing when there is no session or when the
\* current session's window is closed, and closes that window when it is
\* open; it throws nothing, keeps the current session, its outcome flag and
\* every timer, and a second call right after it changes nothing.
C12_CloseIdempotent ==
    [][closeAppWindow =>
          /\ out'.err = "" /\ out'.cb = ""
          /\ currentAppContext' = currentAppContext
          /\ timers' = timers
          /\ DOMAIN heap' = DOMAIN heap
          /\ \A a \in DOMAIN heap :
                /\ heap'[a].receivedAppOutcome_ = heap[a].receivedAppOutcome_
                /\ a # currentAppContext => heap'[a] = heap[a]
          /\ currentAppContext = 0 => (heap' = heap /\ openWindows' = openWindows)
          /\ (currentAppContext # 0 /\ ~isAppWindowOpen(heap[currentAppContext])) =>
                (heap' = heap /\ openWindows' = openWindows)
          /\ (currentAppContext # 0 /\ isAppWindowOpen(heap[currentAppContext])) =>
                /\ heap'[currentAppContext].appWindow_.closed
                /\ openWindows' = openWindows - 1
          \* the second call
          /\ ~ClosesWindow'
          /\ WindowsAfterClose' = openWindows'
          /\ currentAppContext # 0 => ContextClosed(currentAppContext)' = heap']_vars

\* closeAppWindow was called again on the session whose window it had closed
C12_Witness ==
    /\ out.close = "closed"
    /\ closeRequested
    /\ heap[currentAppContext].appWindow_.closed

\* C13: the unload handler removes the message listener and closes the
\* window of the current session; from then on that window is closed, no
\* window is open, and a message invokes no callback and changes no session.
C13_Teardown ==
    /\ [](~listening =>
            /\ openWindows = 0
            /\ currentAppContext # 0 => heap[currentAppContext].appWindow_.closed
            /\ out.cb \notin {ActionSuccess, ActionFailure, ActionReady,
                               ActionSessionCreated})
    /\ [][handleUnloadEvent => ~listening']_vars
    /\ [][~listening => ~listening']_vars
    /\ [][\A m \in MessageEvents :
            (~listening /\ handleMessageEvent(m)) =>
                (heap' = heap /\ out'.cb = "")]_vars

\* the unload handler has closed the open window of the current session
C13_Witness ==
    /\ ~listening
    /\ out.close = "open"
    /\ heap[currentAppContext].appWindow_.closed

\* C14: a message has an effect only when there is a current session whose
\* window is open and whose window identifier is the message's, and the
\* action of the message is not empty; any other message invokes no
\* callback, changes no session and throws nothing.
MessageFails(m) ==
    \/ currentAppContext = 0
    \/ heap[currentAppContext].appWindow_.closed
    \/ m.appWindowId # heap[currentAppContext].appWindowId_
    \/ m.action = ""

MessageActions ==
    {ActionSuccess, ActionFailure, ActionReady, ActionSessionCreated}

C14_DispatchConditions ==
    /\ [](\A m \in MessageEvents :
            /\ Dispatched(m) => ~MessageFails(m)
            /\ (listening /\ MessageFails(m)) => MessageIgnored(m) # "")
    /\ [][out'.ignored # "" =>
            /\ heap' = heap
            /\ out'.cb = "" /\ out'.err = ""
            /\ UNCHANGED <<currentAppContext, timers, openWindows>>]_vars
    /\ [][out'.cb \in MessageActions =>
            /\ out'.err = ""
            /\ currentAppContext # 0 /\ out'.ctx = currentAppContext
            /\ isAppWindowOpen(heap[currentAppContext])]_vars
    /\ [][\A a \in (DOMAIN heap) \cap (DOMAIN heap') :
            heap'[a].receivedAppOutcome_ # heap[a].receivedAppOutcome_ =>
                (a = currentAppContext /\ isAppWindowOpen(heap[a]))]_vars

\* a message reached a session that had received its outcome and whose
\* window was closed since
C14_Witness ==
    /\ out.ignored = "window"
    /\ heap[currentAppContext].receivedAppOutcome_

\* C15: an accepted message whose action is success or failure sets the
\* outcome-received flag, with or without a registered callback, and the
\* callback it invokes finds the flag set; an accepted message with another
\* action leaves the flag as it was; the callback registered for the action
\* is invoked, and nothing else happens when none is registered.
C15_OutcomeBeforeDispatch ==
    [][out'.accepted # "" =>
          LET a == currentAppContext
              action == out'.accepted
          IN  /\ out'.err = ""
              /\ action \in {ActionSuccess, ActionFailure} =>
                    /\ heap'[a].receivedAppOutcome_
                    /\ out'.cb # "" => out'.received
              /\ action \notin {ActionSuccess, ActionFailure} =>
                    heap'[a].receivedAppOutcome_ = heap[a].receivedAppOutcome_
              /\ heap' = [heap EXCEPT ![a].receivedAppOutcome_ =
                                         heap'[a].receivedAppOutcome_]
              /\ (action \in DOMAIN heap[a].actionMap_
                     /\ heap[a].actionMap_[action] = JsFunction) =>
                    (out'.cb = action /\ out'.ctx = a)
              /\ (action \notin DOMAIN heap[a].actionMap_
                     \/ heap[a].actionMap_[action] = JsUndefined) =>
                    out'.cb = ""
              /\ UNCHANGED <<currentAppContext, timers, openWindows>>]_vars

\* a failure message was accepted by a session without onFailure, which
\* had no outcome before
C15_Witness ==
    /\ out.accepted = ActionFailure
    /\ out.cb = ""
    /\ heap[currentAppContext].receivedAppOutcome_
    /\ heap[currentAppContext].actionMap_[ActionFailure] = JsUndefined

\* C16: a poll tick of a session leaves a tick scheduled exactly when the
\* window is not closed and onFinish is registered, or onCancel is and no
\* outcome was received; a tick is scheduled for no other session than one
\* just opened, so none follows a tick that found the window closed; and a
\* session with neither onFinish nor onCancel has no tick scheduled and
\* gets no closure callback.
C16_PollTerminates ==
    /\ [][\A a \in Addr :
            pollAppWindowClosed_(a) =>
                /\ a \in timers' <=>
                      /\ ~heap[a].appWindow_.closed
                      /\ \/ heap[a].onFinish_ = JsFunction
                         \/ heap[a].onCancel_ = JsFunction
                            /\ ~heap[a].receivedAppOutcome_
                /\ out'.cb # "" =>
                      /\ heap[a].appWindow_.closed
                      /\ heap[a].onFinish_ = JsFunction
                            \/ heap[a].onCancel_ = JsFunction]_vars
    /\ [][\A a \in timers' \ timers :
            out'.opened /\ a = currentAppContext' /\ a \notin DOMAIN heap]_vars
    /\ [](\A a \in DOMAIN heap :
            (heap[a].onFinish_ = JsUndefined /\ heap[a].onCancel_ = JsUndefined) =>
                (a \notin timers /\ heap[a].finishCalls = 0
                   /\ heap[a].cancelCalls = 0))
    /\ [](timers \subseteq DOMAIN heap)

\* the poll of a session with onCancel alone has stopped after the outcome,
\* while the window is open
C16_Witness ==
    /\ WindowStillOpen
    /\ heap[currentAppContext].onCancel_ = JsFunction
    /\ heap[currentAppContext].onFinish_ = JsUndefined
    /\ heap[currentAppContext].receivedAppOutcome_
    /\ currentAppContext \notin timers

\* C17: when window.open returns no window, openAppWindow throws, and
\* throws E411 whenever the options are valid and no session window is
\* open; the call that throws E411 starts no poll, creates no session and
\* keeps the current one.
C17_WindowNotOpened ==
    /\ [](\A o \in AppOptionsObjects :
            /\ openAppWindowError(o, FALSE) # ""
            /\ (o \in ValidAppOptionsObjects /\ ~WindowStillOpen) =>
                  openAppWindowError(o, FALSE) = E411)
    /\ [][out'.err = E411 =>
            /\ ~out'.opened
            /\ timers' = timers
            /\ heap' = heap
            /\ currentAppContext' = currentAppContext
            /\ openWindows' = openWindows]_vars

\* the first openAppWindow of the page threw E411 after calling window.open
C17_Witness ==
    /\ out.err = E411
    /\ out.url = PROD_GOOGLE_PAY_ORIGIN \o APP_URL_PATH
    /\ currentAppContext = 0
    /\ timers = {}

\* C18: openAppWindow throws the error of the first check that fails, in
\* the order E406 (no object, or null), E407 (onSessionCreated no function),
\* E408 (an optional callback neither function nor undefined), E409 (the
\* content dimensions neither both numbers nor both undefined), E410 (the
\* window of the current session open), E411 (window.open returned no
\* window), and succeeds exactly when none fails; on E406 to E410
\* window.open is not called and nothing changes.
IsNumber(value) == value.t \in {"number", "nan"}

FirstFailingCheck(o, w) ==
    IF o.t # "object" THEN E406
    ELSE IF o.f.onSessionCreated.t # "function" THEN E407
    ELSE IF \E cb \in {o.f.onReady, o.f.onSuccess, o.f.onFailure, o.f.onFinish,
                        o.f.onCancel} : cb.t \notin {"function", "undefined"}
         THEN E408
    ELSE IF ~( \/ IsNumber(o.f.contentHeight) /\ IsNumber(o.f.contentWidth)
               \/ o.f.contentHeight = JsUndefined /\ o.f.contentWidth = JsUndefined )
         THEN E409
    ELSE IF WindowStillOpen THEN E410
    ELSE IF ~w THEN E411
    ELSE ""

StaleFor(m, a) ==
    /\ a # currentAppContext
    /\ m.appWindowId = heap[a].appWindowId_
    /\ m.origin = heap[a].appOrigin_
    /\ heap[a].appOrigin_ = heap[currentAppContext].appOrigin_

C19_NoStaleCollision ==
    [][\A m \in MessageEvents :
          ( /\ currentAppContext # 0
            /\ \E a \in DOMAIN heap : StaleFor(m, a)
            /\ handleMessageEvent(m) ) =>
              /\ out'.cb = ""
              /\ heap'[currentAppContext].receivedAppOutcome_
                    = heap[currentAppContext].receivedAppOutcome_]_vars

\* C20, as stated: the current session is the only session in existence,
\* at most one session has a poll tick scheduled, and onFinish and onCancel
\* are invoked for the current session only.
C20_SingleSession ==
    /\ Cardinality(timers) <= 1
    /\ DOMAIN heap \subseteq {currentAppContext}
    /\ out.cb \in {"onFinish", "onCancel"} => out.ctx = currentAppContext

\* C21: an openAppWindow call that throws opens nothing and leaves the
\* current session, or its absence, and every session as they were, so
\* that messages reach the same session and closeAppWindow acts on it as
\* before the call; and the current session always holds a window.
C21_FailedOpenKeepsSession ==
    /\ [][out'.err # "" =>
            /\ out'.err \in {E406, E407, E408, E409, E410, E411}
            /\ ~out'.opened
            /\ UNCHANGED <<windowName, heap, currentAppContext, timers,
                           openWindows, listening, closeRequested>>
            /\ ClosesWindow' = ClosesWindow
            /\ \A id \in {FIXED_APP_WINDOW_ID_1, FIXED_APP_WINDOW_ID_2} :
                  LET m == [origin |-> PROD_GOOGLE_PAY_ORIGIN, appWindowId |-> id,
                            action |-> ActionSessionCreated, payload |-> "payload"]
                  IN  Dispatched(m)' = Dispatched(m)]_vars
    /\ [](currentAppContext # 0 =>
            /\ currentAppContext \in DOMAIN heap
            /\ ~heap[currentAppContext].appWindow_.null)

\* openAppWindow threw E411 while a session that has received its outcome
\* is current
C21_Witness ==
    /\ out.err = E411
    /\ currentAppContext # 0
    /\ heap[currentAppContext].receivedAppOutcome_

\* C22: for every session, onFinish and onCancel are invoked at most once
\* in total, only by a tick that finds the window closed, onFinish only
\* with the outcome-received flag true and onCancel only with it false;
\* once one was invoked the session has no tick left.
C22_ClosureCallbackOnce ==
    /\ [](\A a \in DOMAIN heap :
            /\ heap[a].finishCalls + heap[a].cancelCalls <= 1
            /\ heap[a].finishCalls + heap[a].cancelCalls = 1 =>
                  (heap[a].appWindow_.closed /\ a \notin timers)
            /\ heap[a].finishCalls = 1 => heap[a].receivedAppOutcome_
            /\ heap[a].cancelCalls = 1 => ~heap[a].receivedAppOutcome_)
    /\ [][out'.cb \in {"onFinish", "onCancel"} =>
            LET a == out'.ctx
            IN  /\ a \in timers /\ a \notin timers'
                /\ heap[a].appWindow_.closed
                /\ heap[a].finishCalls = 0 /\ heap[a].cancelCalls = 0
                /\ out'.cb = "onFinish" =>
                      (heap[a].receivedAppOutcome_ /\ heap[a].onFinish_ = JsFunction)
                /\ out'.cb = "onCancel" =>
                      (~heap[a].receivedAppOutcome_ /\ heap[a].onCancel_ = JsFunction)
                /\ out'.received = heap[a].receivedAppOutcome_]_vars
    /\ [][\A a \in (DOMAIN heap) \cap (DOMAIN heap') :
            /\ heap'[a].finishCalls >= heap[a].finishCalls
            /\ heap'[a].cancelCalls >= heap[a].cancelCalls
            /\ heap'[a].finishCalls + heap'[a].cancelCalls
                  > heap[a].finishCalls + heap[a].cancelCalls =>
                  (out'.ctx = a /\ out'.cb \in {"onFinish", "onCancel"})]_vars

\* a message reached a session with both callbacks after its onCancel
C22_Witness ==
    /\ out.ignored = "window"
    /\ heap[currentAppContext].cancelCalls = 1
    /\ heap[currentAppContext].onFinish_ = JsFunction

\* C23: the window of a session is closed when a successful openAppWindow
\* replaces it, and a closed window stays closed; the tick still pending
\* for a replaced session fires once, invokes at most one closure callback
\* and is not scheduled again, so that the ticks pending for replaced
\* sessions grow by at most one with each replacement and by nothing else.
ReplacedTimers == timers \ {currentAppContext}

C23_ReplacedTickOnce ==
    /\ [][(out'.opened /\ currentAppContext # 0) =>
            /\ heap[currentAppContext].appWindow_.closed
            /\ currentAppContext' # currentAppContext
            /\ currentAppContext \in DOMAIN heap' =>
                  heap'[currentAppContext] = heap[currentAppContext]]_vars
    /\ [](\A a \in (DOMAIN heap) \ {currentAppContext} :
            heap[a].appWindow_.closed /\ a \in timers)
    /\ [][\A a \in (DOMAIN heap) \cap (DOMAIN heap') :
            heap[a].appWindow_.closed => heap'[a].appWindow_.closed]_vars
    /\ [][\A a \in ReplacedTimers :
            pollAppWindowClosed_(a) =>
                /\ a \notin timers'
                /\ a \notin DOMAIN heap'
                /\ out'.cb # "" =>
                      /\ out'.ctx = a
                      /\ heap[a].finishCalls + heap[a].cancelCalls = 0]_vars
    /\ [][Cardinality(ReplacedTimers') <=
            Cardinality(ReplacedTimers)
              + (IF out'.opened /\ currentAppContext # 0 THEN 1 ELSE 0)]_vars

\* the tick of a replaced session has invoked its onCancel while the new
\* session's window is open
C23_Witness ==
    /\ out.cb = "onCancel"
    /\ out.ctx # currentAppContext
    /\ out.ctx \notin timers
    /\ WindowStillOpen

====
